---------------------------- MODULE Spec2Model ----------------------------
(***************************************************************************)
(* Model of src/main.py: class IranianHolidayCalendar.                     *)
(*                                                                         *)
(* One calendar object is modelled.  Its fields are `year`, `holidays`     *)
(* (the holiday oracle built in __init__) and `off_days` (the record       *)
(* list).  Each public method is one action that models the whole call,    *)
(* the lazy call of generate_off_days included.  The remaining variables   *)
(* hold what the last call delivered to its caller (return value,          *)
(* exception, written file content, printed lines) and a log of the last   *)
(* run of the generator loop.                                              *)
(*                                                                         *)
(* Strings are modelled as sequences of tokens (words and glyphs); the     *)
(* Python test `s in label` is the test "token s occurs in label".         *)
(* Persian words are written in Latin transliteration.                     *)
(***************************************************************************)
EXTENDS Integers, Sequences, FiniteSets, TLC

VARIABLES
    year,           \* self.year
    holidays,       \* self.holidays: the oracle, (month, day) -> answer
    off_days,       \* self.off_days: list of (iso_date, day, month, label)
    branch,         \* log: for each element of off_days, the branch of the loop that appended it
    visits,         \* log: dates looked at by the last run of the loop, with the branch taken
    gen_base,       \* log: Len(off_days) when the last run of the loop started
    gen_count,      \* log: number of runs of the loop so far
    gen_ran,        \* log: the last call ran the loop
    last_op,        \* the last public method called
    outcome,        \* how the last call ended: "return", "OracleFailure" or "IOFailure"
    io_fault,       \* the environment made the file write of the last call fail
    ret_off_days,   \* list returned by the last call, when it was generate_off_days
    has_first,      \* a generate_off_days call has returned normally
    first_off_days, \* the list the first such call returned (content at its return)
    ret_stats,      \* dict returned by the last call, when it was get_statistics
    ret_filename,   \* filename returned by the last call, when it was an export
    csv_rows,       \* data rows written by the last call, when it was save_to_csv
    json_data,      \* data["holidays"] dumped by the last call, when it was save_to_json
    printed         \* record lines printed by the last call, when it was print_calendar

vars == <<year, holidays, off_days, branch, visits, gen_base, gen_count, gen_ran,
          last_op, outcome, io_fault, ret_off_days, has_first, first_off_days,
          ret_stats, ret_filename, csv_rows, json_data, printed>>

---------------------------------------------------------------------------
(* Bounds of the model. *)

\* Runs of the generator loop on one calendar object.
MaxGenerations == 2

\* Years the calendar is constructed for: century non-leap years (1900,
\* 2100), a leap year (2024) and the default year (2025).
Years == {1900, 2024, 2025, 2100}

\* Dates on which the modelled oracles may answer something else than
\* "no holiday": 2025-01-02 is a Thursday and 2025-03-21 a Friday,
\* 2024-03-21 a Thursday; the others are working days of their years.
OracleDates == {<<1, 2>>, <<3, 21>>}

---------------------------------------------------------------------------
(* Tokens of the label strings. *)

FLAG_GLYPH       == "crossed-flags"     \* the glyph of the holiday label, line 88
CALENDAR_GLYPH   == "calendar"          \* the glyph of the Thursday label, line 96
MOSQUE_GLYPH     == "mosque"            \* the glyph of the Friday label, line 104
WEEKLY_OFF_WORDS == "tatili-haftegi"    \* "weekly off", lines 96 and 104
THURSDAY_WORD    == "panjshanbeh"       \* lines 96 and 249
FRIDAY_WORD      == "jomeh"             \* lines 104 and 250

Contains(label, token) == \E i \in DOMAIN label : label[i] = token

(* Oracle answers: holidays.get(date) returns None, returns a string, or   *)
(* raises.                                                                 *)
NoneAnswer    == [kind |-> "none",  name |-> <<>>]
NameAnswer(n) == [kind |-> "name",  name |-> n]
ErrorAnswer   == [kind |-> "error", name |-> <<>>]

OracleNames == { <<>>,                          \* the empty string
                 <<"Nowruz">>,
                 <<"ruz-e", FRIDAY_WORD>> }     \* a name that holds the word Friday

OracleAnswers == {NoneAnswer, ErrorAnswer} \cup {NameAnswer(n) : n \in OracleNames}

Oracles == [OracleDates -> OracleAnswers]

---------------------------------------------------------------------------
(* datetime.date, as far as the program uses it. *)

IsLeap(y) == y % 4 = 0 /\ (y % 100 # 0 \/ y % 400 = 0)

DaysInMonth(y, m) ==
    IF m = 2 THEN (IF IsLeap(y) THEN 29 ELSE 28)
    ELSE IF m \in {4, 6, 9, 11} THEN 30 ELSE 31

DaysBeforeYear(y) ==
    LET p == y - 1 IN p * 365 + (p \div 4) - (p \div 100) + (p \div 400)

\* Days before the first of each month in a common year.
DaysBeforeMonthTable == <<0, 31, 59, 90, 120, 151, 181, 212, 243, 273, 304, 334>>

DaysBeforeMonth(y, m) ==
    DaysBeforeMonthTable[m] + (IF m > 2 /\ IsLeap(y) THEN 1 ELSE 0)

\* date.toordinal(): 0001-01-01 is day 1.
ToOrdinal(dt) == DaysBeforeYear(dt[1]) + DaysBeforeMonth(dt[1], dt[2]) + dt[3]

\* date.weekday(): Monday is 0.
Weekday(dt) == (ToOrdinal(dt) + 6) % 7

\* current_date + timedelta(days=1)
NextDay(dt) ==
    IF dt[3] < DaysInMonth(dt[1], dt[2]) THEN <<dt[1], dt[2], dt[3] + 1>>
    ELSE IF dt[2] < 12 THEN <<dt[1], dt[2] + 1, 1>>
    ELSE <<dt[1] + 1, 1, 1>>

\* Comparison of dates.
DateLT(a, b) ==
    \/ a[1] < b[1]
    \/ a[1] = b[1] /\ a[2] < b[2]
    \/ a[1] = b[1] /\ a[2] = b[2] /\ a[3] < b[3]

DateLE(a, b) == a = b \/ DateLT(a, b)

DigitChars == <<"0", "1", "2", "3", "4", "5", "6", "7", "8", "9">>

DigitChar(n) == DigitChars[n + 1]

CharDigit(c) == CHOOSE n \in 0..9 : DigitChars[n + 1] = c

\* date.isoformat(): the ten characters YYYY-MM-DD.
IsoFormat(dt) ==
    << DigitChar(dt[1] \div 1000), DigitChar((dt[1] \div 100) % 10),
       DigitChar((dt[1] \div 10) % 10), DigitChar(dt[1] % 10), "-",
       DigitChar(dt[2] \div 10), DigitChar(dt[2] % 10), "-",
       DigitChar(dt[3] \div 10), DigitChar(dt[3] % 10) >>

\* date.fromisoformat()
FromIsoFormat(s) ==
    << CharDigit(s[1]) * 1000 + CharDigit(s[2]) * 100 + CharDigit(s[3]) * 10 + CharDigit(s[4]),
       CharDigit(s[6]) * 10 + CharDigit(s[7]),
       CharDigit(s[9]) * 10 + CharDigit(s[10]) >>

---------------------------------------------------------------------------
(* generate_off_days *)

start_date(y) == <<y, 1, 1>>
end_date(y)   == <<y, 12, 31>>

\* A mutant of LoopContinues: the loop stops before the last day.
LoopContinuesStrict(current_date, last) == DateLT(current_date, last)

\* The loop condition, line 74.
LoopContinues(current_date, last) == DateLE(current_date, last)

\* A mutant of HolidaysGet: a failing lookup is answered None.
HolidaysGetSwallow(oracle, dt) ==
    LET key == <<dt[2], dt[3]>>
        ans == IF key \in DOMAIN oracle THEN oracle[key] ELSE NoneAnswer
    IN  [raised |-> FALSE,
         value  |-> IF ans.kind = "error" THEN NoneAnswer ELSE ans]

\* self.holidays.get(current_date), line 80: the answer, or an exception.
HolidaysGet(oracle, dt) ==
    LET key == <<dt[2], dt[3]>>
        ans == IF key \in DOMAIN oracle THEN oracle[key] ELSE NoneAnswer
    IN  [raised |-> ans.kind = "error", value |-> ans]

\* Python's truth value of holiday_label: None and "" are false.
Truthy(ans) == ans.kind = "name" /\ ans.name # <<>>

HolidayLabel(name) == <<FLAG_GLYPH>> \o name
ThursdayLabel      == <<CALENDAR_GLYPH, WEEKLY_OFF_WORDS, THURSDAY_WORD>>
FridayLabel        == <<MOSQUE_GLYPH, WEEKLY_OFF_WORDS, FRIDAY_WORD>>

\* A mutant of Classify: the weekday is tested before the holiday.
ClassifyWeekdayFirst(ans, wd) ==
    IF wd = 3 THEN "thursday"
    ELSE IF wd = 4 THEN "friday"
    ELSE IF Truthy(ans) THEN "holiday"
    ELSE "working"

\* The if / elif chain of lines 82-105: the branch taken.
Classify(ans, wd) ==
    IF Truthy(ans) THEN "holiday"
    ELSE IF wd = 3 THEN "thursday"
    ELSE IF wd = 4 THEN "friday"
    ELSE "working"

\* The tuple appended by the branch taken.
Record(dt, cls, ans) ==
    [iso   |-> IsoFormat(dt),
     day   |-> dt[3],
     month |-> dt[2],
     label |-> IF cls = "holiday" THEN HolidayLabel(ans.name)
               ELSE IF cls = "thursday" THEN ThursdayLabel
               ELSE FridayLabel]

\* One test of the loop condition and, when it holds, one pass through the
\* body of the while loop of lines 74-107.  st.off_days is self.off_days;
\* st.done is set when the loop is left, st.raised when it is left by the
\* exception of the lookup.
LoopStep(st, last, oracle) ==
    IF st.done THEN st
    ELSE IF ~LoopContinues(st.current_date, last) THEN [st EXCEPT !.done = TRUE]
    ELSE LET dt  == st.current_date
             got == HolidaysGet(oracle, dt)
         IN
         IF got.raised
         THEN [st EXCEPT !.done = TRUE, !.raised = TRUE,
                         !.visits = Append(@, [date |-> dt, cls |-> "raised"])]
         ELSE LET cls == Classify(got.value, Weekday(dt)) IN
              IF cls = "working"
              THEN [st EXCEPT !.visits = Append(@, [date |-> dt, cls |-> cls]),
                              !.current_date = NextDay(dt)]
              ELSE [st EXCEPT !.off_days = Append(@, Record(dt, cls, got.value)),
                              !.branch   = Append(@, cls),
                              !.visits   = Append(@, [date |-> dt, cls |-> cls]),
                              !.current_date = NextDay(dt)]

\* n successive steps of the loop.
RECURSIVE LoopSteps(_, _, _, _)
LoopSteps(st, n, last, oracle) ==
    IF n = 0 \/ st.done THEN st
    ELSE IF n = 1 THEN LoopStep(st, last, oracle)
    ELSE LoopSteps(LoopSteps(st, n \div 2, last, oracle), n - (n \div 2), last, oracle)

\* The loop, run until it is left.
RECURSIVE Loop(_, _, _, _)
Loop(st, n, last, oracle) ==
    LET after == LoopSteps(st, n, last, oracle)
    IN  IF after.done THEN after ELSE Loop(after, 2 * n, last, oracle)

\* One call of generate_off_days on a calendar whose list is `list`.
Generate(y, oracle, list, tags) ==
    Loop([current_date |-> start_date(y), off_days |-> list, branch |-> tags,
          visits |-> <<>>, raised |-> FALSE, done |-> FALSE],
         1, end_date(y), oracle)

\* A mutant of NeedsGeneration: the list is regenerated on every call.
NeedsGenerationAlways(list) == TRUE

\* `if not self.off_days:` of lines 119, 153, 200 and 245.
NeedsGeneration(list) == list = <<>>

\* `if not self.off_days: self.generate_off_days()` in the current state.
Ensured ==
    IF NeedsGeneration(off_days)
    THEN [ran |-> TRUE, gen |-> Generate(year, holidays, off_days, branch)]
    ELSE [ran |-> FALSE,
          gen |-> [off_days |-> off_days, branch |-> branch,
                   visits |-> visits, raised |-> FALSE]]

---------------------------------------------------------------------------
(* Lookup tables of __init__ and the weekday names of strftime("%A"). *)

persian_months ==
    <<"farvardin", "ordibehesht", "khordad", "tir", "mordad", "shahrivar",
      "mehr", "aban", "azar", "dey", "bahman", "esfand">>

persian_weekdays ==
    <<"doshanbeh", "seshanbeh", "chaharshanbeh", "panjshanbeh",
      "jomeh", "shanbeh", "yekshanbeh">>

english_weekdays ==
    <<"Monday", "Tuesday", "Wednesday", "Thursday", "Friday", "Saturday", "Sunday">>

---------------------------------------------------------------------------
(* get_statistics *)

CountLabels(list, token) ==
    Cardinality({i \in DOMAIN list : Contains(list[i].label, token)})

\* The dict of lines 248-259.
Statistics(list, y) ==
    LET official_holidays == CountLabels(list, FLAG_GLYPH)
        thursday_offs     == CountLabels(list, THURSDAY_WORD)
        friday_offs       == CountLabels(list, FRIDAY_WORD)
    IN  [total_off_days       |-> Len(list),
         official_holidays    |-> official_holidays,
         thursday_weekly_offs |-> thursday_offs,
         friday_weekly_offs   |-> friday_offs,
         weekend_days         |-> thursday_offs + friday_offs,
         working_days         |-> IF y % 4 # 0 THEN 365 - Len(list) ELSE 366 - Len(list)]

\* What ret_stats holds when the last call returned no statistics.
NoStats ==
    [total_off_days |-> 0, official_holidays |-> 0, thursday_weekly_offs |-> 0,
     friday_weekly_offs |-> 0, weekend_days |-> 0, working_days |-> 0]

---------------------------------------------------------------------------
(* save_to_csv, save_to_json, print_calendar *)

\* The data rows of lines 171-181.
CsvRows(list) ==
    [i \in DOMAIN list |->
        LET r  == list[i]
            wd == Weekday(FromIsoFormat(r.iso))
        IN  [date |-> r.iso, day |-> r.day, month |-> r.month, label |-> r.label,
             persian_month   |-> persian_months[r.month],
             weekday_persian |-> persian_weekdays[wd + 1],
             weekday_english |-> english_weekdays[wd + 1]]]

\* A mutant of IsOfficialHoliday: the glyph of the Thursday label is tested.
IsOfficialHolidayWrongGlyph(label) == Contains(label, CALENDAR_GLYPH)

\* The test of line 225.
IsOfficialHoliday(label) == Contains(label, FLAG_GLYPH)

\* data["holidays"] of lines 215-226.
JsonHolidays(list) ==
    [i \in DOMAIN list |->
        LET r  == list[i]
            wd == Weekday(FromIsoFormat(r.iso))
        IN  [date |-> r.iso, day |-> r.day, month |-> r.month, label |-> r.label,
             persian_month       |-> persian_months[r.month],
             weekday_persian     |-> persian_weekdays[wd + 1],
             weekday_english     |-> english_weekdays[wd + 1],
             is_official_holiday |-> IsOfficialHoliday(r.label)]]

\* The lines printed by the loop of lines 129-141: for each record the
\* month header printed before it (empty when none is) and the record line.
PrintedLines(list, show_persian_dates) ==
    [i \in DOMAIN list |->
        LET r             == list[i]
            current_month == IF i = 1 THEN 0 ELSE list[i - 1].month
            wd            == Weekday(FromIsoFormat(r.iso))
        IN  [header |-> IF r.month # current_month
                        THEN (IF show_persian_dates
                              THEN <<persian_months[r.month]>>
                              ELSE <<"Month", r.month>>)
                        ELSE <<>>,
             date |-> r.iso, day |-> r.day, month |-> r.month,
             weekday_persian |-> persian_weekdays[wd + 1],
             weekday_english |-> english_weekdays[wd + 1],
             label |-> r.label]]

\* Filenames: the default name of lines 157 and 204, or the caller's.
DefaultFilename(y, ext) == [stem |-> "iran_holidays", year |-> y, ext |-> ext]
CustomFilename          == [stem |-> "custom", year |-> 0, ext |-> ""]
NoFilename              == [stem |-> "", year |-> 0, ext |-> ""]

\* A mutant of WriteOutcome: a failed write is logged and the call returns.
WriteOutcomeSwallow(write_ok) == "return"

\* try / except of lines 161-188 and 208-236: the exception is logged and raised again.
WriteOutcome(write_ok) == IF write_ok THEN "return" ELSE "IOFailure"

---------------------------------------------------------------------------
(* The state machine. *)

Init ==
    /\ year \in Years
    /\ holidays \in Oracles
    /\ off_days = <<>>
    /\ branch = <<>>
    /\ visits = <<>>
    /\ gen_base = 0
    /\ gen_count = 0
    /\ gen_ran = FALSE
    /\ last_op = "__init__"
    /\ outcome = "return"
    /\ io_fault = FALSE
    /\ ret_off_days = <<>>
    /\ has_first = FALSE
    /\ first_off_days = <<>>
    /\ ret_stats = NoStats
    /\ ret_filename = NoFilename
    /\ csv_rows = <<>>
    /\ json_data = <<>>
    /\ printed = <<>>

\* The effect of a call on the object and on the logs of the loop.
SetCalendar(ran, gen) ==
    /\ off_days' = gen.off_days
    /\ branch' = gen.branch
    /\ visits' = gen.visits
    /\ gen_base' = IF ran THEN Len(off_days) ELSE gen_base
    /\ gen_count' = IF ran THEN gen_count + 1 ELSE gen_count
    /\ gen_ran' = ran
    /\ UNCHANGED <<year, holidays>>

\* What a call delivers to its caller.
Deliver(op, how, fault, list, stats, filename, rows, data, lines) ==
    /\ last_op' = op
    /\ outcome' = how
    /\ io_fault' = fault
    /\ ret_off_days' = list
    /\ ret_stats' = stats
    /\ ret_filename' = filename
    /\ csv_rows' = rows
    /\ json_data' = data
    /\ printed' = lines

generate_off_days ==
    /\ gen_count < MaxGenerations
    /\ LET gen == Generate(year, holidays, off_days, branch) IN
       /\ SetCalendar(TRUE, gen)
       /\ IF gen.raised
          THEN /\ Deliver("generate_off_days", "OracleFailure", FALSE, <<>>,
                          NoStats, NoFilename, <<>>, <<>>, <<>>)
               /\ UNCHANGED <<has_first, first_off_days>>
          ELSE /\ Deliver("generate_off_days", "return", FALSE, gen.off_days,
                          NoStats, NoFilename, <<>>, <<>>, <<>>)
               /\ has_first' = TRUE
               /\ first_off_days' = IF has_first THEN first_off_days ELSE gen.off_days

print_calendar ==
    /\ NeedsGeneration(off_days) => gen_count < MaxGenerations
    /\ LET e == Ensured IN
       /\ SetCalendar(e.ran, e.gen)
       /\ \E show_persian_dates \in BOOLEAN :
            IF e.gen.raised
            THEN Deliver("print_calendar", "OracleFailure", FALSE, <<>>,
                         NoStats, NoFilename, <<>>, <<>>, <<>>)
            ELSE Deliver("print_calendar", "return", FALSE, <<>>,
                         NoStats, NoFilename, <<>>, <<>>,
                         PrintedLines(e.gen.off_days, show_persian_dates))
    /\ UNCHANGED <<has_first, first_off_days>>

save_to_csv ==
    /\ NeedsGeneration(off_days) => gen_count < MaxGenerations
    /\ LET e    == Ensured
           rows == CsvRows(e.gen.off_days)
       IN
       /\ SetCalendar(e.ran, e.gen)
       /\ \E custom \in BOOLEAN, write_ok \in BOOLEAN :
            LET filename == IF custom THEN CustomFilename
                            ELSE DefaultFilename(year, "csv")
                how      == WriteOutcome(write_ok)
            IN
            IF e.gen.raised
            THEN Deliver("save_to_csv", "OracleFailure", FALSE, <<>>,
                         NoStats, NoFilename, <<>>, <<>>, <<>>)
            ELSE Deliver("save_to_csv", how, ~write_ok, <<>>, NoStats,
                         IF how = "return" THEN filename ELSE NoFilename,
                         IF write_ok THEN rows ELSE <<>>,
                         <<>>, <<>>)
    /\ UNCHANGED <<has_first, first_off_days>>

save_to_json ==
    /\ NeedsGeneration(off_days) => gen_count < MaxGenerations
    /\ LET e    == Ensured
           data == JsonHolidays(e.gen.off_days)
       IN
       /\ SetCalendar(e.ran, e.gen)
       /\ \E custom \in BOOLEAN, write_ok \in BOOLEAN :
            LET filename == IF custom THEN CustomFilename
                            ELSE DefaultFilename(year, "json")
                how      == WriteOutcome(write_ok)
            IN
            IF e.gen.raised
            THEN Deliver("save_to_json", "OracleFailure", FALSE, <<>>,
                         NoStats, NoFilename, <<>>, <<>>, <<>>)
            ELSE Deliver("save_to_json", how, ~write_ok, <<>>, NoStats,
                         IF how = "return" THEN filename ELSE NoFilename,
                         <<>>,
                         IF write_ok THEN data ELSE <<>>,
                         <<>>)
    /\ UNCHANGED <<has_first, first_off_days>>

get_statistics ==
    /\ NeedsGeneration(off_days) => gen_count < MaxGenerations
    /\ LET e == Ensured IN
       /\ SetCalendar(e.ran, e.gen)
       /\ IF e.gen.raised
          THEN Deliver("get_statistics", "OracleFailure", FALSE, <<>>,
                       NoStats, NoFilename, <<>>, <<>>, <<>>)
          ELSE Deliver("get_statistics", "return", FALSE, <<>>,
                       Statistics(e.gen.off_days, year), NoFilename, <<>>, <<>>, <<>>)
    /\ UNCHANGED <<has_first, first_off_days>>

Next ==
    \/ generate_off_days
    \/ print_calendar
    \/ save_to_csv
    \/ save_to_json
    \/ get_statistics

Spec == Init /\ [][Next]_vars

---------------------------------------------------------------------------
(* Notions the properties are stated with. *)

\* The Gregorian length of year y.
GregorianDaysInYear(y) ==
    IF y % 4 = 0 /\ (y % 100 # 0 \/ y % 400 = 0) THEN 366 ELSE 365

\* The dates from y-01-01 to y-12-31.
AllDates(y) ==
    {dt \in {<<y, m, d>> : m \in 1..12, d \in 1..31} :
        /\ dt[2] \in {4, 6, 9, 11} => dt[3] <= 30
        /\ dt[2] = 2 => dt[3] <= (IF GregorianDaysInYear(y) = 366 THEN 29 ELSE 28)}

\* What the oracle of this calendar answers for a date.
OracleAt(dt) ==
    IF <<dt[2], dt[3]>> \in DOMAIN holidays THEN holidays[<<dt[2], dt[3]>>] ELSE NoneAnswer

\* The oracle returns a non-empty holiday name for the date.
OracleNamesDate(dt) == OracleAt(dt).kind = "name" /\ OracleAt(dt).name # <<>>

\* The oracle fails to answer for the date.
OracleFailsAt(dt) == OracleAt(dt).kind = "error"

RecordDate(r) == FromIsoFormat(r.iso)

WeeklyRestLabels == {ThursdayLabel, FridayLabel}

\* The last run of the loop visited the whole year.
RunComplete == visits # <<>> /\ visits[Len(visits)].cls # "raised"

Consumers == {"print_calendar", "save_to_csv", "save_to_json", "get_statistics"}
Exports   == {"save_to_csv", "save_to_json"}

CountBranch(cls) == Cardinality({i \in DOMAIN branch : branch[i] = cls})

---------------------------------------------------------------------------
(* C1 *)

\* C1: holiday precedence.  A date for which the oracle returns a non-empty
\* name is recorded only as an official holiday, with the label "flag glyph
\* + the oracle's name", also when it is a Thursday or a Friday: every
\* record of such a date is a holiday record, every such date visited by a
\* run of the loop has a record, and no date has both a holiday record and
\* a weekly-rest record.
HolidayPrecedence ==
    /\ \A i \in DOMAIN off_days :
         OracleNamesDate(RecordDate(off_days[i])) =>
            /\ branch[i] = "holiday"
            /\ off_days[i].label = <<FLAG_GLYPH>> \o OracleAt(RecordDate(off_days[i])).name
            /\ off_days[i].label \notin WeeklyRestLabels
    /\ \A i \in DOMAIN visits :
         (OracleNamesDate(visits[i].date) /\ visits[i].cls # "raised") =>
            /\ visits[i].cls = "holiday"
            /\ \E k \in DOMAIN off_days : off_days[k].iso = IsoFormat(visits[i].date)
    /\ {off_days[i].iso : i \in {k \in DOMAIN off_days : branch[k] = "holiday"}}
         \cap {off_days[i].iso : i \in {k \in DOMAIN off_days :
                                          \/ branch[k] \in {"thursday", "friday"}
                                          \/ off_days[k].label \in WeeklyRestLabels}}
         = {}

\* C1 witness: the list holds a holiday record of a Thursday or a Friday.
HolidayOnRestDayRecorded ==
    \E i \in DOMAIN off_days :
        /\ branch[i] = "holiday"
        /\ Weekday(RecordDate(off_days[i])) \in {3, 4}

---------------------------------------------------------------------------
(* C2 *)

\* The class the claim gives a date.
ClaimedClass(dt) ==
    IF OracleNamesDate(dt) THEN "holiday"
    ELSE IF Weekday(dt) = 3 THEN "thursday"
    ELSE IF Weekday(dt) = 4 THEN "friday"
    ELSE "working"

FreshRunReturned ==
    last_op = "generate_off_days" /\ outcome = "return" /\ gen_base = 0

\* C2: complete classification.  One run of generate_off_days on a fresh
\* calendar visits every date of the year exactly once, in ascending order
\* (365 visits, 366 in a Gregorian leap year), puts each date in the class
\* the claim gives it, and records exactly the dates that are not working
\* days, in the order of the visits.  For 2025, when the oracle names
\* neither, Jan 1 is not recorded and Jan 2 is recorded as a Thursday off.
CompleteClassification ==
    FreshRunReturned =>
       /\ Len(visits) = GregorianDaysInYear(year)
       /\ {visits[i].date : i \in DOMAIN visits} = AllDates(year)
       /\ \A i \in 1..(Len(visits) - 1) : DateLT(visits[i].date, visits[i + 1].date)
       /\ \A i \in DOMAIN visits : visits[i].cls = ClaimedClass(visits[i].date)
       /\ LET recorded == SelectSeq(visits, LAMBDA v : v.cls # "working") IN
          /\ Len(off_days) = Len(recorded)
          /\ \A i \in DOMAIN off_days :
               /\ off_days[i].iso = IsoFormat(recorded[i].date)
               /\ branch[i] = recorded[i].cls
       /\ (year = 2025 /\ ~OracleNamesDate(<<2025, 1, 1>>) /\ ~OracleNamesDate(<<2025, 1, 2>>)) =>
             /\ \A i \in DOMAIN off_days : off_days[i].iso # IsoFormat(<<2025, 1, 1>>)
             /\ \E i \in DOMAIN off_days :
                   /\ off_days[i].iso = IsoFormat(<<2025, 1, 2>>)
                   /\ off_days[i].label = ThursdayLabel

\* C2 witness: a fresh run over a leap year has returned, with a holiday,
\* Thursdays, Fridays and working days among its visits.
FreshLeapYearRunReturned ==
    /\ FreshRunReturned
    /\ GregorianDaysInYear(year) = 366
    /\ \A c \in {"holiday", "thursday", "friday", "working"} :
          \E i \in DOMAIN visits : visits[i].cls = c

---------------------------------------------------------------------------
(* C3 *)

\* C3: on the calendar generated for the year, get_statistics returns
\* working_days + total_off_days equal to the Gregorian length of the
\* year, which is the number of dates the generator visited.
StatisticsYearLength ==
    (last_op = "get_statistics" /\ outcome = "return" /\ gen_count = 1 /\ RunComplete) =>
       /\ ret_stats.working_days + ret_stats.total_off_days = GregorianDaysInYear(year)
       /\ ret_stats.working_days + ret_stats.total_off_days = Len(visits)

---------------------------------------------------------------------------
(* C4 *)

\* C4: idempotence of generation.  A call of generate_off_days returns the
\* same list, element for element, as the first call did.
GenerateIdempotent ==
    (last_op = "generate_off_days" /\ outcome = "return" /\ has_first) =>
       ret_off_days = first_off_days

---------------------------------------------------------------------------
(* C5 *)

\* C5: calendar invariant.  In every reachable state the record list is
\* sorted strictly ascending by date and every record's date lies in the
\* target year.
CalendarInvariant ==
    /\ \A i \in 1..(Len(off_days) - 1) :
          DateLT(RecordDate(off_days[i]), RecordDate(off_days[i + 1]))
    /\ \A i \in DOMAIN off_days :
          /\ DateLE(<<year, 1, 1>>, RecordDate(off_days[i]))
          /\ DateLE(RecordDate(off_days[i]), <<year, 12, 31>>)

---------------------------------------------------------------------------
(* C6 *)

\* C6: the consumers are read-only.  A call of print_calendar, save_to_csv,
\* save_to_json or get_statistics leaves the record list as it was.
ConsumersReadOnly ==
    [][last_op' \in Consumers => off_days' = off_days]_vars

\* C6, amended: a call of print_calendar, save_to_csv, save_to_json or
\* get_statistics on a calendar whose record list is not empty leaves the
\* record list as it was.
ConsumersReadOnlyOnceGenerated ==
    [][(last_op' \in Consumers /\ off_days # <<>>) => off_days' = off_days]_vars

\* C6 witness: a consumer has returned without running the generator, on a
\* list that holds records.
ConsumerReadGeneratedList ==
    last_op \in Consumers /\ outcome = "return" /\ ~gen_ran /\ off_days # <<>>

---------------------------------------------------------------------------
(* C7 *)

\* C7: an oracle failure is not swallowed.  When the call ran the loop and
\* the oracle fails for a date the loop visited, the call ends with the
\* oracle's failure and returns nothing, the failing date is the last one
\* visited, it is put in no class, and the run appended no record for it.
OracleFailurePropagates ==
    gen_ran =>
       \A i \in DOMAIN visits :
          OracleFailsAt(visits[i].date) =>
             /\ outcome = "OracleFailure"
             /\ ret_off_days = <<>> /\ ret_stats = NoStats /\ ret_filename = NoFilename
             /\ csv_rows = <<>> /\ json_data = <<>> /\ printed = <<>>
             /\ i = Len(visits)
             /\ visits[i].cls = "raised"
             /\ \A k \in (gen_base + 1)..Len(off_days) :
                   off_days[k].iso # IsoFormat(visits[i].date)

\* C7 witness: generate_off_days ended with the oracle's failure after it
\* had visited and recorded earlier dates.
GenerationFailedMidYear ==
    /\ last_op = "generate_off_days"
    /\ outcome = "OracleFailure"
    /\ Len(visits) > 1
    /\ off_days # <<>>
    /\ OracleFailsAt(visits[Len(visits)].date)

---------------------------------------------------------------------------
(* C8 *)

\* What a call of get_statistics would return for a calendar whose list is `list`.
LaterStatistics(list) ==
    Statistics(IF list = <<>> THEN Generate(year, holidays, list, <<>>).off_days ELSE list,
               year)

\* What a call of save_to_json would dump for a calendar whose list is `list`.
LaterJson(list) ==
    JsonHolidays(IF list = <<>> THEN Generate(year, holidays, list, <<>>).off_days ELSE list)

\* C8: export write failure.  When the file write of save_to_csv or
\* save_to_json fails, the call ends with the failure and returns no
\* filename, the record list is the one the write was attempted with, and
\* a later get_statistics or export gives what it would have given had the
\* export not been attempted.
ExportWriteFailure ==
    [][(last_op' \in Exports /\ io_fault') =>
          /\ outcome' = "IOFailure"
          /\ ret_filename' = NoFilename
          /\ off_days' = (IF off_days = <<>>
                          THEN Generate(year, holidays, off_days, <<>>).off_days
                          ELSE off_days)
          /\ LaterStatistics(off_days') = LaterStatistics(off_days)
          /\ LaterJson(off_days') = LaterJson(off_days)]_vars

\* C8 witness: the write of an export failed on a generated calendar.
ExportWriteFailed ==
    last_op \in Exports /\ io_fault /\ off_days # <<>>

---------------------------------------------------------------------------
(* C9 *)

\* C9: the counters of get_statistics are the numbers of records the
\* holiday, Thursday and Friday branches created, whatever names the
\* oracle returned; they add up to total_off_days, and weekend_days counts
\* the weekly-rest records only.
StatisticsCountBranches ==
    (last_op = "get_statistics" /\ outcome = "return") =>
       /\ ret_stats.official_holidays = CountBranch("holiday")
       /\ ret_stats.thursday_weekly_offs = CountBranch("thursday")
       /\ ret_stats.friday_weekly_offs = CountBranch("friday")
       /\ ret_stats.official_holidays + ret_stats.thursday_weekly_offs
             + ret_stats.friday_weekly_offs = ret_stats.total_off_days
       /\ ret_stats.weekend_days = CountBranch("thursday") + CountBranch("friday")

---------------------------------------------------------------------------
(* C10 *)

\* C10: in the JSON export, is_official_holiday is true of a record exactly
\* when the holiday branch created it.
JsonOfficialFlag ==
    (last_op = "save_to_json" /\ outcome = "return") =>
       /\ Len(json_data) = Len(off_days)
       /\ \A i \in DOMAIN json_data :
             /\ json_data[i].date = off_days[i].iso
             /\ json_data[i].is_official_holiday <=> (branch[i] = "holiday")

\* C10 witness: a JSON export holds a holiday whose name has the word
\* Friday in it, and a weekly-rest record.
JsonExportedBothKinds ==
    /\ last_op = "save_to_json" /\ outcome = "return"
    /\ \E i \in DOMAIN json_data :
          json_data[i].is_official_holiday /\ Contains(json_data[i].label, FRIDAY_WORD)
    /\ \E i \in DOMAIN json_data : ~json_data[i].is_official_holiday

===========================================================================
